---------------------------- MODULE Spec2Model ----------------------------
(***************************************************************************)
(* Model of pkg/translator: the process-wide TranslationCache (a map       *)
(* guarded by a sync.RWMutex, with lazy expiry on Get) and TranslateBatch  *)
(* (chunked fan-out of workers bounded by a buffered-channel semaphore).   *)
(*                                                                         *)
(* Time is counted in hours.  Go indexes are kept 0-based: the item with   *)
(* Go index x is texts[x + 1].                                             *)
(***************************************************************************)
EXTENDS Integers, Sequences, FiniteSets, TLC

\* ------------------------------------------------------------------ bounds
\* Number of goroutines that use the cache concurrently in SpecCache.
NumGoroutines == 2
\* Longest input list given to TranslateBatch.
MaxTexts == 4
\* Number of times the clock advances.
MaxTicks == 3

\* ------------------------------------------------------- program constants
\* cacheDuration = 24 * time.Hour, in hours.
cacheDuration == 24
maxConcurrency == 2
batchSize == 3

\* The clock advances half a cache lifetime at a time, so that entries are
\* seen at ages below, equal to and above cacheDuration.
TickHours == cacheDuration \div 2
MaxClock == MaxTicks * TickHours

InputLanguage == "English"
OutputLanguage == "Chinese"

\* Texts a caller may pass; "" is rejected by Translate's validation.
Texts == {"", "a", "b"}
\* The external service may give either of two answers to the same request.
Variants == {1, 2}
\* The text the external service answers to a request for `text`.
Translation(text, v) == "zh(" \o text \o ")#" \o ToString(v)
Translations(text) == {Translation(text, v) : v \in Variants}

VARIABLES
    \* ---- TranslationCache and the clock
    cache,      \* c.cache: key -> [result, timestamp]
    now,        \* time.Now(), in hours
    crashed,    \* the Go runtime has thrown a fatal concurrent-map-access error
    \* ---- c.mu (sync.RWMutex) and the goroutines of SpecCache
    readers,    \* goroutines holding the read lock
    writer,     \* the goroutine holding the write lock, if any (a set)
    writerWait, \* the goroutine inside Lock() waiting for the readers to leave, if any
    gpc,        \* position of each goroutine inside Get / Set
    gkey,       \* key computed by the running Get / Set
    gval,       \* result passed to the running Set
    gret,       \* value the running Get is about to return
    gage,       \* time.Since(entry.timestamp) read by the running Get, -1 if no entry
    gdel,       \* the running Get has executed delete(c.cache, key)
    \* ---- TranslateBatch
    texts,      \* the input list
    results,    \* results := make([]string, len(texts))
    errChan,    \* buffered error channel: Go indexes of the failed items, in send order
    errClosed,  \* close(errChan) has run
    sem,        \* number of tokens in the semaphore channel
    wg,         \* sync.WaitGroup counter
    dpc,        \* position of the driver (the goroutine running TranslateBatch)
    ci,         \* loop variable i: Go index of the first item of the current chunk
    cj,         \* loop variable j: next item of the chunk to dispatch
    pc,         \* position of the worker of each Go index
    wres,       \* local variable `result` of each worker
    ret,        \* what TranslateBatch returned: [results, isNil, err], err = "" for nil
    cancelled,  \* the parent context is done
    \* ---- history of the run (never read by the program)
    hcalls,     \* external calls started for each Go index
    hfrom,      \* where each worker's result came from
    hslept,     \* workers that performed the 500ms post-call delay
    hheld,      \* workers that acquired a slot
    hfailed,    \* Go indexes whose translation failed
    hset,       \* per key, the last Set executed less than cacheDuration ago
    hsent,      \* Go indexes of the workers that sent on errChan, in send order
    \* ---- one caller of Translate / TranslateWithTool
    tpc,        \* position of the caller inside the running call
    tkind,      \* the function running: "Translate", "TranslateWithTool",
                \* "TranslateWithAgent", or the tool's "Call", "Name" or "Description"
    targs,      \* arguments of the call: [text, inputLanguage, outputLanguage]
    tcur,       \* arguments of the Translate that is running (the tool calls it)
    tout,       \* text answered by the external call, or found by the tool's Translate
    tret,       \* what the call returned: [result, err], err = "" for nil
    \* ---- history of the running call (never read by the program)
    hlook,      \* cache lookups made by the call
    hext,       \* external calls made by the call
    hentry,     \* the map as it was when the call was entered
    hok,        \* per key, the result of the last successful call and the
                \* functions whose last successful call returned it, while the
                \* Set behind it is younger than cacheDuration
    \* ---- TranslateWithAgent
    llm,        \* the client passed to TranslateWithAgent: nil or a client
    retry,      \* loop variable retry
    iterations, \* iterations the executor has used in the running attempt
    \* ---- history of the running TranslateWithAgent (never read by the program)
    hattempts,  \* what each run of the executor ended with, "running" for one in progress
    hdirect     \* calls of translator.Translate made by TranslateWithAgent itself

cacheVars == <<cache, now, crashed>>
lockVars == <<readers, writer, writerWait, gpc, gkey, gval, gret, gage, gdel>>
batchVars == <<texts, results, errChan, errClosed, sem, wg, dpc, ci, cj, pc, wres,
               ret, cancelled>>
histVars == <<hcalls, hfrom, hslept, hheld, hfailed, hset, hsent>>
agentVars == <<llm, retry, iterations, hattempts, hdirect>>
callVars == <<tpc, tkind, targs, tcur, tout, tret, hlook, hext, hentry, hok, agentVars>>
vars == <<cacheVars, lockVars, batchVars, histVars, callVars>>

\* ------------------------------------------------------------ the cache
\* Mutation of getCacheKey: the fields are joined without a separator.
getCacheKeyNoSeparator(text, inputLang, outputLang) ==
    text \o inputLang \o outputLang

\* getCacheKey: fmt.Sprintf("%s:%s:%s", text, inputLang, outputLang)
getCacheKey(text, inputLang, outputLang) ==
    text \o ":" \o inputLang \o ":" \o outputLang

\* cacheEntry{result, timestamp}
cacheEntry(result, timestamp) == [result |-> result, timestamp |-> timestamp]

\* time.Since(entry.timestamp) at time t
Since(entry, t) == t - entry.timestamp

\* Mutation of Fresh: an entry of age exactly cacheDuration still counts as valid.
FreshInclusive(entry, t) == Since(entry, t) <= cacheDuration

\* time.Since(entry.timestamp) < cacheDuration
Fresh(entry, t) == Since(entry, t) < cacheDuration

\* Mutation of Delete: the delete sweeps the whole map.
DeleteAll(c, key) == [k \in {} |-> c[k]]

\* delete(c.cache, key)
Delete(c, key) == [k \in DOMAIN c \ {key} |-> c[k]]

\* Mutation of Store: overwriting an entry keeps the timestamp of the first Set.
StoreKeepStamp(c, key, result, t) ==
    [k \in DOMAIN c \cup {key} |->
        IF k = key
        THEN cacheEntry(result, IF key \in DOMAIN c THEN c[key].timestamp ELSE t)
        ELSE c[k]]

\* Mutation of Store: Set stores nothing.
StoreNothing(c, key, result, t) == c

\* c.cache[key] = cacheEntry{result, time.Now()}
Store(c, key, result, t) ==
    [k \in DOMAIN c \cup {key} |-> IF k = key THEN cacheEntry(result, t) ELSE c[k]]

\* Mutation of GetResult: Get never finds anything.
GetMiss(c, key, t) == [result |-> "", ok |-> FALSE]

\* The value Get returns for `key` at time t.
GetResult(c, key, t) ==
    IF key \in DOMAIN c /\ Fresh(c[key], t)
    THEN [result |-> c[key].result, ok |-> TRUE]
    ELSE [result |-> "", ok |-> FALSE]

\* The map Get leaves behind: an expired entry is deleted.
GetCache(c, key, t) ==
    IF key \in DOMAIN c /\ ~Fresh(c[key], t) THEN Delete(c, key) ELSE c

\* Keys and results used by the goroutines of SpecCache.
CacheTexts == {"a", "b"}
CacheResults == {Translation("a", 1), Translation("a", 2)}
Goroutines == 1..NumGoroutines

EmptyCache == [k \in {} |-> cacheEntry("", 0)]

\* History of the Set calls, kept apart from the map: for each key set less
\* than cacheDuration ago, what the last Set of the key stored and when, and
\* whether that Set came after an earlier one still on record.
SetRecord(result, timestamp, again) ==
    [result |-> result, timestamp |-> timestamp, again |-> again]
NoSetYet == [k \in {} |-> SetRecord("", 0, FALSE)]
RecordSet(h, key, result, t) ==
    [k \in DOMAIN h \cup {key} |->
        IF k = key THEN SetRecord(result, t, key \in DOMAIN h) ELSE h[k]]
\* The records that are younger than cacheDuration at time t.
Unexpired(h, t) ==
    [k \in {k \in DOMAIN h : t - h[k].timestamp < cacheDuration} |-> h[k]]
\* Mutation of NoReturn: a miss reports ok = true.
FoundEmpty == [result |-> "", ok |-> TRUE]

\* return "", false
NoReturn == [result |-> "", ok |-> FALSE]

\* ---------------------------------------------- Get and Set, step by step
\* Get: c.mu.RLock(); key := getCacheKey(...)
\* A reader is admitted while no writer holds or waits for the lock.
GetRLock(g, text) ==
    /\ ~crashed
    /\ gpc[g] = "idle"
    /\ writer = {} /\ writerWait = {}
    /\ readers' = readers \cup {g}
    /\ gkey' = [gkey EXCEPT ![g] = getCacheKey(text, InputLanguage, OutputLanguage)]
    /\ gpc' = [gpc EXCEPT ![g] = "get_lookup"]
    /\ UNCHANGED <<cacheVars, writer, writerWait, gval, gret, gage, gdel, batchVars, histVars>>
    /\ UNCHANGED callVars

\* Get: entry, ok := c.cache[key]; time.Since(entry.timestamp) < cacheDuration
GetLookup(g) ==
    /\ ~crashed
    /\ gpc[g] = "get_lookup"
    /\ IF gkey[g] \in DOMAIN cache
       THEN /\ gage' = [gage EXCEPT ![g] = now - cache[gkey[g]].timestamp]
            /\ IF Fresh(cache[gkey[g]], now)
               THEN /\ gret' = [gret EXCEPT ![g] =
                                  [result |-> cache[gkey[g]].result, ok |-> TRUE]]
                    /\ gpc' = [gpc EXCEPT ![g] = "get_return"]
               ELSE /\ gret' = gret
                    /\ gpc' = [gpc EXCEPT ![g] = "get_delete"]
       ELSE /\ gage' = gage
            /\ gret' = gret
            /\ gpc' = [gpc EXCEPT ![g] = "get_return"]
    /\ UNCHANGED <<cacheVars, readers, writer, writerWait, gkey, gval, gdel, batchVars, histVars>>
    /\ UNCHANGED callVars

\* Get: delete(c.cache, key), executed with the read lock only
GetDelete(g) ==
    /\ ~crashed
    /\ gpc[g] = "get_delete"
    /\ cache' = Delete(cache, gkey[g])
    /\ gdel' = [gdel EXCEPT ![g] = TRUE]
    /\ gpc' = [gpc EXCEPT ![g] = "get_return"]
    /\ UNCHANGED <<now, crashed, readers, writer, writerWait, gkey, gval, gret, gage,
                   batchVars, histVars>>
    /\ UNCHANGED callVars

\* Get: return ...; deferred c.mu.RUnlock()
GetReturn(g) ==
    /\ ~crashed
    /\ gpc[g] = "get_return"
    /\ readers' = readers \ {g}
    /\ gpc' = [gpc EXCEPT ![g] = "idle"]
    /\ gkey' = [gkey EXCEPT ![g] = ""]
    /\ gret' = [gret EXCEPT ![g] = NoReturn]
    /\ gage' = [gage EXCEPT ![g] = -1]
    /\ gdel' = [gdel EXCEPT ![g] = FALSE]
    /\ UNCHANGED <<cacheVars, writer, writerWait, gval, batchVars, histVars>>
    /\ UNCHANGED callVars

\* Set: c.mu.Lock() is entered; new readers are held back from now on
SetLock(g, text, result) ==
    /\ ~crashed
    /\ gpc[g] = "idle"
    /\ writer = {} /\ writerWait = {}
    /\ writerWait' = {g}
    /\ gkey' = [gkey EXCEPT ![g] = getCacheKey(text, InputLanguage, OutputLanguage)]
    /\ gval' = [gval EXCEPT ![g] = result]
    /\ gpc' = [gpc EXCEPT ![g] = "set_wait"]
    /\ UNCHANGED <<cacheVars, readers, writer, gret, gage, gdel, batchVars, histVars>>
    /\ UNCHANGED callVars

\* Set: c.mu.Lock() returns once the last reader has left
SetAcquire(g) ==
    /\ ~crashed
    /\ gpc[g] = "set_wait"
    /\ readers = {}
    /\ writer' = {g}
    /\ writerWait' = {}
    /\ gpc' = [gpc EXCEPT ![g] = "set_store"]
    /\ UNCHANGED <<cacheVars, readers, gkey, gval, gret, gage, gdel, batchVars, histVars>>
    /\ UNCHANGED callVars

\* Set: c.cache[key] = cacheEntry{result, time.Now()}
SetStore(g) ==
    /\ ~crashed
    /\ gpc[g] = "set_store"
    /\ cache' = Store(cache, gkey[g], gval[g], now)
    /\ hset' = RecordSet(hset, gkey[g], gval[g], now)
    /\ gpc' = [gpc EXCEPT ![g] = "set_unlock"]
    /\ UNCHANGED <<now, crashed, readers, writer, writerWait, gkey, gval, gret, gage, gdel,
                   batchVars, hcalls, hfrom, hslept, hheld, hfailed, hsent>>
    /\ UNCHANGED callVars

\* Set: deferred c.mu.Unlock()
SetUnlock(g) ==
    /\ ~crashed
    /\ gpc[g] = "set_unlock"
    /\ writer' = {}
    /\ gpc' = [gpc EXCEPT ![g] = "idle"]
    /\ gkey' = [gkey EXCEPT ![g] = ""]
    /\ gval' = [gval EXCEPT ![g] = ""]
    /\ UNCHANGED <<cacheVars, readers, writerWait, gret, gage, gdel, batchVars, histVars>>
    /\ UNCHANGED callVars

\* Goroutines inside an access to the map
Mutating(g) == gpc[g] \in {"get_delete", "set_store"}
Accessing(g) == gpc[g] \in {"get_lookup", "get_delete", "set_store"}

\* Two goroutines are inside the map at once and one of them writes it.
MapRace == \E g, h \in Goroutines : g # h /\ Mutating(g) /\ Accessing(h)

\* The Go runtime detects an unsynchronised map write ("fatal error: concurrent
\* map writes" / "concurrent map read and map write") and kills the process.
\* Detection is best effort: the racing accesses may also go through.
Fatal ==
    /\ ~crashed
    /\ MapRace
    /\ crashed' = TRUE
    /\ UNCHANGED <<cache, now, lockVars, batchVars, histVars>>
    /\ UNCHANGED callVars

\* Time passes.
Tick ==
    /\ ~crashed
    /\ now < MaxClock
    /\ now' = now + TickHours
    /\ hset' = Unexpired(hset, now')
    /\ hok' = [k \in DOMAIN hok \cap DOMAIN hset' |-> hok[k]]
    /\ UNCHANGED <<cache, crashed, lockVars, batchVars, hcalls, hfrom, hslept, hheld, hfailed, hsent>>
    /\ UNCHANGED <<tpc, tkind, targs, tcur, tout, tret, hlook, hext, hentry, agentVars>>

InitCache ==
    /\ cache = EmptyCache
    /\ now = 0
    /\ crashed = FALSE

InitLock ==
    /\ readers = {}
    /\ writer = {}
    /\ writerWait = {}
    /\ gpc = [g \in Goroutines |-> "idle"]
    /\ gkey = [g \in Goroutines |-> ""]
    /\ gval = [g \in Goroutines |-> ""]
    /\ gret = [g \in Goroutines |-> NoReturn]
    /\ gage = [g \in Goroutines |-> -1]
    /\ gdel = [g \in Goroutines |-> FALSE]

\* No batch is running.
InitNoBatch ==
    /\ texts = <<>>
    /\ results = <<>>
    /\ errChan = <<>>
    /\ errClosed = FALSE
    /\ sem = 0
    /\ wg = 0
    /\ dpc = "unused"
    /\ ci = 0
    /\ cj = 0
    /\ pc = <<>>
    /\ wres = <<>>
    /\ ret = [results |-> <<>>, isNil |-> TRUE, err |-> ""]
    /\ cancelled = FALSE
    /\ hcalls = <<>>
    /\ hfrom = <<>>
    /\ hslept = {}
    /\ hheld = {}
    /\ hfailed = {}
    /\ hset = NoSetYet
    /\ hsent = <<>>

\* History of the successful calls: `kind` has returned `result` for `key`.
NoSuccess == [k \in {} |-> [result |-> "", kinds |-> {}]]
RecordOK(h, key, result, kind) ==
    [k \in DOMAIN h \cup {key} |->
        IF k # key THEN h[k]
        ELSE IF key \in DOMAIN h /\ h[key].result = result
             THEN [result |-> result, kinds |-> h[key].kinds \cup {kind}]
             ELSE [result |-> result, kinds |-> {kind}]]

\* llm *openai.LLM: nil, or a client.
NilClient == "nil"
Client == "client"

\* No call of TranslateWithAgent is running.
InitAgent ==
    /\ llm = NilClient
    /\ retry = 0
    /\ iterations = 0
    /\ hattempts = <<>>
    /\ hdirect = 0

\* No call of Translate or TranslateWithTool is running.
NoArgs == [text |-> "", inputLanguage |-> "", outputLanguage |-> ""]
NoResult == [result |-> "", err |-> ""]
InitCall ==
    /\ tpc = "idle"
    /\ tkind = ""
    /\ targs = NoArgs
    /\ tcur = NoArgs
    /\ tout = ""
    /\ tret = NoResult
    /\ hlook = 0
    /\ hext = 0
    /\ hentry = cache
    /\ hok = NoSuccess
    /\ InitAgent

InitCacheSpec == InitCache /\ InitLock /\ InitNoBatch /\ InitCall

NextCache ==
    \/ \E g \in Goroutines, text \in CacheTexts : GetRLock(g, text)
    \/ \E g \in Goroutines : GetLookup(g)
    \/ \E g \in Goroutines : GetDelete(g)
    \/ \E g \in Goroutines : GetReturn(g)
    \/ \E g \in Goroutines, text \in CacheTexts, result \in CacheResults :
          SetLock(g, text, result)
    \/ \E g \in Goroutines : SetAcquire(g)
    \/ \E g \in Goroutines : SetStore(g)
    \/ \E g \in Goroutines : SetUnlock(g)
    \/ Fatal
    \/ Tick

\* Goroutines calling Get and Set on the shared cache while time passes.
SpecCache == InitCacheSpec /\ [][NextCache]_vars

\* ------------------------------------------------------- TranslateBatch
N == Len(texts)
\* Go indexes of the items; each has one worker goroutine.
Workers == 0..(N - 1)
TextOf(x) == texts[x + 1]
KeyOf(x) == getCacheKey(TextOf(x), InputLanguage, OutputLanguage)
\* i / batchSize: the chunk an index belongs to
ChunkOf(x) == x \div batchSize
\* end := i + batchSize; if end > len(texts) { end = len(texts) }
ChunkEnd == IF ci + batchSize > N THEN N ELSE ci + batchSize

\* Mutation of SlotFree: the semaphore never blocks.
SlotAlwaysFree == TRUE

\* semaphore <- struct{}{} can proceed: the channel holds fewer than maxConcurrency tokens
SlotFree == sem < maxConcurrency
\* Mutation of AtCacheCheck: the cache is checked before the slot is taken.
AtCacheCheckBeforeSlot(x) == pc[x] = "acquire"

\* the worker stands at the cache check, after `semaphore <- struct{}{}`
AtCacheCheck(x) == pc[x] = "check"
\* Mutation of ResultSlot: the worker indexes results by batchIndex.
ResultSlotBatchIndex(x) == ChunkOf(x) + 1

\* results[index]
ResultSlot(x) == x + 1
\* Mutation of WaitGroupDone: the driver waits for one worker of the chunk only.
WaitGroupFirstDone == wg < cj

\* Mutation of WaitGroupDone: the driver does not wait for the chunk.
WaitGroupIgnored == TRUE

\* wg.Wait() can return
WaitGroupDone == wg = 0
\* Mutation of ErrCapacity: the error channel holds half as many errors.
ErrCapacityHalf == N \div 2

\* errChan := make(chan error, len(texts))
ErrCapacity == N
\* Mutation of ErrorIndex: the error names batchIndex, the number of the chunk.
ErrorBatchIndex(x) == ChunkOf(x)

\* the index in fmt.Errorf("failed to translate text at index %d: %w", index, err)
ErrorIndex(x) == x
\* Mutation of ErrPending: the driver never looks at the error channel.
ErrNeverPending == FALSE

\* `case err := <-errChan` is ready
ErrPending == Len(errChan) > 0
\* Mutation of AbortReturn: the partial results are returned with the error.
AbortReturnPartial(x) ==
    [results |-> results, isNil |-> FALSE,
     err |-> "batch translation error: failed to translate text at index " \o ToString(x)]

\* return nil, fmt.Errorf("batch translation error: %v", err)
AbortReturn(x) ==
    [results |-> <<>>, isNil |-> TRUE,
     err |-> "batch translation error: failed to translate text at index " \o ToString(x)]
\* return results, nil
SuccessReturn == [results |-> results, isNil |-> FALSE, err |-> ""]
\* Mutation of EmptyReturn: an empty batch succeeds with an empty list.
EmptyReturnNoError == [results |-> <<>>, isNil |-> FALSE, err |-> ""]

\* return nil, fmt.Errorf("empty texts input")
EmptyReturn == [results |-> <<>>, isNil |-> TRUE, err |-> "empty texts input"]
NotReturned == [results |-> <<>>, isNil |-> TRUE, err |-> ""]

\* TranslateBatch is entered: the empty-input check, then the allocations.
TranslateBatchStart ==
    /\ ~crashed
    /\ dpc = "start"
    /\ IF N = 0
       THEN /\ ret' = EmptyReturn
            /\ dpc' = "returned"
            /\ UNCHANGED results
       ELSE /\ results' = [k \in 1..N |-> ""]
            /\ dpc' = "spawn"
            /\ UNCHANGED ret
    /\ UNCHANGED <<cacheVars, lockVars, texts, errChan, errClosed, sem, wg, ci, cj, pc, wres,
                   cancelled, histVars>>
    /\ UNCHANGED callVars

\* wg.Add(1); go func(index, batchIndex, text) {...}(i+j, i/batchSize, text)
SpawnWorker ==
    /\ ~crashed
    /\ dpc = "spawn"
    /\ ci + cj < ChunkEnd
    /\ wg' = wg + 1
    /\ pc' = [pc EXCEPT ![ci + cj] = "acquire"]
    /\ cj' = cj + 1
    /\ UNCHANGED <<cacheVars, lockVars, texts, results, errChan, errClosed, sem, dpc, ci, wres,
                   ret, cancelled, histVars>>
    /\ UNCHANGED callVars

\* wg.Wait() returns
WaitChunk ==
    /\ ~crashed
    /\ dpc = "spawn"
    /\ ci + cj = ChunkEnd
    /\ WaitGroupDone
    /\ dpc' = "select"
    /\ UNCHANGED <<cacheVars, lockVars, texts, results, errChan, errClosed, sem, wg, ci, cj, pc,
                   wres, ret, cancelled, histVars>>
    /\ UNCHANGED callVars

\* select { case err := <-errChan: close; return nil, err  default: }
\* followed by the end of the loop body
CheckErrors ==
    /\ ~crashed
    /\ dpc = "select"
    /\ IF ErrPending
       THEN /\ errChan' = Tail(errChan)
            /\ errClosed' = TRUE
            /\ ret' = AbortReturn(Head(errChan))
            /\ dpc' = "returned"
       ELSE /\ UNCHANGED <<errChan, errClosed>>
            /\ IF ChunkEnd < N
               THEN dpc' = "pause" /\ UNCHANGED ret
               ELSE dpc' = "returned" /\ ret' = SuccessReturn
    /\ UNCHANGED <<cacheVars, lockVars, texts, results, sem, wg, ci, cj, pc, wres,
                   cancelled, histVars>>
    /\ UNCHANGED callVars

\* time.Sleep(1 * time.Second) between chunks; i += batchSize
InterChunkDelay ==
    /\ ~crashed
    /\ dpc = "pause"
    /\ ci' = ci + batchSize
    /\ cj' = 0
    /\ dpc' = "spawn"
    /\ UNCHANGED <<cacheVars, lockVars, texts, results, errChan, errClosed, sem, wg, pc, wres,
                   ret, cancelled, histVars>>
    /\ UNCHANGED callVars

\* worker: semaphore <- struct{}{}
Acquire(x) ==
    /\ ~crashed
    /\ pc[x] = "acquire"
    /\ SlotFree
    /\ sem' = sem + 1
    /\ pc' = [pc EXCEPT ![x] = "check"]
    /\ hheld' = hheld \cup {x}
    /\ UNCHANGED <<cacheVars, lockVars, texts, results, errChan, errClosed, wg, dpc, ci, cj,
                   wres, ret, cancelled, hcalls, hfrom, hslept, hfailed, hset, hsent>>
    /\ UNCHANGED callVars

\* Mutation of Return: the worker returns without giving its slot back.
ReturnKeepsSlot(x) ==
    /\ sem' = sem
    /\ wg' = wg - 1
    /\ pc' = [pc EXCEPT ![x] = "done"]

\* worker: the deferred calls run when the goroutine returns:
\* cancel(), func() { <-semaphore }(), wg.Done()
Return(x) ==
    /\ sem' = sem - 1
    /\ wg' = wg - 1
    /\ pc' = [pc EXCEPT ![x] = "done"]

\* worker: if result, ok := defaultCache.Get(...); ok { results[index] = result; return }
CheckCache(x) ==
    /\ ~crashed
    /\ AtCacheCheck(x)
    /\ cache' = GetCache(cache, KeyOf(x), now)
    /\ IF GetResult(cache, KeyOf(x), now).ok
       THEN /\ results' = [results EXCEPT ![ResultSlot(x)] =
                              GetResult(cache, KeyOf(x), now).result]
            /\ hfrom' = [hfrom EXCEPT ![x] = "cache"]
            /\ Return(x)
       ELSE /\ pc' = [pc EXCEPT ![x] = "translate"]
            /\ UNCHANGED <<results, hfrom, sem, wg, hsent>>
    /\ UNCHANGED <<now, crashed, lockVars, texts, errChan, errClosed, dpc, ci, cj,
                   wres, ret, cancelled, hcalls, hslept, hheld, hfailed, hset, hsent>>
    /\ UNCHANGED callVars

\* worker, inside Translate: the validation of the arguments, then the cache check.
\* On a hit Translate returns the cached text and the worker stores it in
\* results[index]; on a miss the external call (chains.Call) is started.
TranslateEnter(x) ==
    /\ ~crashed
    /\ pc[x] = "translate"
    /\ IF TextOf(x) = ""
       THEN /\ pc' = [pc EXCEPT ![x] = "report"]
            /\ hfailed' = hfailed \cup {x}
            /\ UNCHANGED <<cache, results, hfrom, hcalls, hsent>>
       ELSE /\ cache' = GetCache(cache, KeyOf(x), now)
            /\ hfailed' = hfailed
            /\ IF GetResult(cache, KeyOf(x), now).ok
               THEN /\ results' = [results EXCEPT ![ResultSlot(x)] =
                                      GetResult(cache, KeyOf(x), now).result]
                    /\ hfrom' = [hfrom EXCEPT ![x] = "translateCache"]
                    /\ pc' = [pc EXCEPT ![x] = "sleep"]
                    /\ UNCHANGED hcalls
               ELSE /\ pc' = [pc EXCEPT ![x] = "call"]
                    /\ hcalls' = [hcalls EXCEPT ![x] = @ + 1]
                    /\ UNCHANGED <<results, hfrom, hsent>>
    /\ UNCHANGED <<now, crashed, lockVars, texts, errChan, errClosed, sem, wg, dpc,
                   ci, cj, wres, ret, cancelled, hslept, hheld, hset, hsent>>
    /\ UNCHANGED callVars

\* worker, inside Translate: the external call answers with a text
CallOK(x, v) ==
    /\ ~crashed
    /\ pc[x] = "call"
    /\ ~cancelled
    /\ wres' = [wres EXCEPT ![x] = Translation(TextOf(x), v)]
    /\ pc' = [pc EXCEPT ![x] = "set"]
    /\ UNCHANGED <<cacheVars, lockVars, texts, results, errChan, errClosed, sem, wg, dpc, ci,
                   cj, ret, cancelled, histVars>>
    /\ UNCHANGED callVars

\* Mutation of CallFail: after a failed call the worker runs Translate again.
CallFailRetry(x) ==
    /\ ~crashed
    /\ pc[x] = "call"
    /\ pc' = [pc EXCEPT ![x] = "translate"]
    /\ hfailed' = hfailed \cup {x}
    /\ UNCHANGED <<cacheVars, lockVars, texts, results, errChan, errClosed, sem, wg, dpc, ci,
                   cj, wres, ret, cancelled, hcalls, hfrom, hslept, hheld, hset, hsent>>
    /\ UNCHANGED callVars

\* worker, inside Translate: the external call fails (upstream error, timeout,
\* cancelled context, malformed answer); Translate returns the error
CallFail(x) ==
    /\ ~crashed
    /\ pc[x] = "call"
    /\ pc' = [pc EXCEPT ![x] = "report"]
    /\ hfailed' = hfailed \cup {x}
    /\ UNCHANGED <<cacheVars, lockVars, texts, results, errChan, errClosed, sem, wg, dpc, ci,
                   cj, wres, ret, cancelled, hcalls, hfrom, hslept, hheld, hset, hsent>>
    /\ UNCHANGED callVars

\* Mutation of TranslateSet: the result goes to results[index] only, not to the cache.
TranslateSetLocal(x) ==
    /\ ~crashed
    /\ pc[x] = "set"
    /\ cache' = cache
    /\ hset' = RecordSet(hset, KeyOf(x), wres[x], now)
    /\ results' = [results EXCEPT ![ResultSlot(x)] = wres[x]]
    /\ wres' = [wres EXCEPT ![x] = ""]
    /\ hfrom' = [hfrom EXCEPT ![x] = "call"]
    /\ pc' = [pc EXCEPT ![x] = "sleep"]
    /\ UNCHANGED <<now, crashed, lockVars, texts, errChan, errClosed, sem, wg, dpc,
                   ci, cj, ret, cancelled, hcalls, hslept, hheld, hfailed, hsent>>
    /\ UNCHANGED callVars

\* worker, inside Translate: defaultCache.Set(text, inputLanguage, outputLanguage, out);
\* Translate returns and the worker stores the text: results[index] = result
TranslateSet(x) ==
    /\ ~crashed
    /\ pc[x] = "set"
    /\ cache' = Store(cache, KeyOf(x), wres[x], now)
    /\ hset' = RecordSet(hset, KeyOf(x), wres[x], now)
    /\ results' = [results EXCEPT ![ResultSlot(x)] = wres[x]]
    /\ wres' = [wres EXCEPT ![x] = ""]
    /\ hfrom' = [hfrom EXCEPT ![x] = "call"]
    /\ pc' = [pc EXCEPT ![x] = "sleep"]
    /\ UNCHANGED <<now, crashed, lockVars, texts, errChan, errClosed, sem, wg, dpc,
                   ci, cj, ret, cancelled, hcalls, hslept, hheld, hfailed, hsent>>
    /\ UNCHANGED callVars

\* worker: time.Sleep(500 * time.Millisecond) ends, and the goroutine returns
Sleep(x) ==
    /\ ~crashed
    /\ pc[x] = "sleep"
    /\ hslept' = hslept \cup {x}
    /\ Return(x)
    /\ UNCHANGED <<cacheVars, lockVars, texts, results, errChan, errClosed, dpc, ci,
                   cj, wres, ret, cancelled, hcalls, hfrom, hheld, hfailed, hset, hsent>>
    /\ UNCHANGED callVars

\* worker: errChan <- fmt.Errorf("failed to translate text at index %d: %w", index, err)
\* and the goroutine returns.  The send blocks while the buffer (capacity
\* len(texts)) is full.
ReportError(x) ==
    /\ ~crashed
    /\ pc[x] = "report"
    /\ Len(errChan) < ErrCapacity
    /\ ~errClosed
    /\ errChan' = Append(errChan, ErrorIndex(x))
    /\ hsent' = Append(hsent, x)
    /\ Return(x)
    /\ UNCHANGED <<cacheVars, lockVars, texts, results, errClosed, dpc, ci, cj, wres,
                   ret, cancelled, hcalls, hfrom, hslept, hheld, hfailed, hset>>
    /\ UNCHANGED callVars

\* The parent context is cancelled or its deadline expires.
Cancel ==
    /\ ~crashed
    /\ ~cancelled
    /\ dpc \notin {"returned", "unused"}
    /\ cancelled' = TRUE
    /\ UNCHANGED <<cacheVars, lockVars, texts, results, errChan, errClosed, sem, wg, dpc, ci,
                   cj, pc, wres, ret, histVars>>
    /\ UNCHANGED callVars

\* Workers about to run Get, which takes the read lock only.
AtGet(x) == pc[x] = "check" \/ (pc[x] = "translate" /\ TextOf(x) # "")
\* Two workers are inside Get at once and one of them deletes an expired entry.
BatchMapRace ==
    \E x, y \in Workers :
        /\ x # y /\ AtGet(x) /\ AtGet(y)
        /\ KeyOf(x) \in DOMAIN cache /\ ~Fresh(cache[KeyOf(x)], now)

\* The runtime kills the process on the unsynchronised map write.
BatchFatal ==
    /\ ~crashed
    /\ BatchMapRace
    /\ crashed' = TRUE
    /\ UNCHANGED <<cache, now, lockVars, batchVars, histVars>>
    /\ UNCHANGED callVars

\* Input lists a caller may pass.  The texts "a" and "b" are interchangeable, so
\* only the lists in which "b" comes after some "a" are kept.
FirstA(t) == \A k \in 1..Len(t) : t[k] = "b" => \E m \in 1..(k - 1) : t[m] = "a"
AllInputs == {t \in UNION {[1..n -> Texts] : n \in 0..MaxTexts} : FirstA(t)}

InitBatch ==
    /\ texts \in AllInputs
    /\ results = <<>>
    /\ errChan = <<>>
    /\ errClosed = FALSE
    /\ sem = 0
    /\ wg = 0
    /\ dpc = "start"
    /\ ci = 0
    /\ cj = 0
    /\ pc = [x \in Workers |-> "idle"]
    /\ wres = [x \in Workers |-> ""]
    /\ ret = NotReturned
    /\ cancelled = FALSE
    /\ hcalls = [x \in Workers |-> 0]
    /\ hfrom = [x \in Workers |-> "none"]
    /\ hslept = {}
    /\ hheld = {}
    /\ hfailed = {}
    /\ hsent = <<>>

\* The texts translated by earlier calls: those of the batch that pass the
\* validation, or "a" when the batch is empty.
WarmTexts(t) ==
    IF Len(t) = 0 THEN {"a"} ELSE {t[m] : m \in {m \in 1..Len(t) : t[m] # ""}}

\* The cache left behind by earlier successful Translate calls, made at time 0.
WarmCache(t) ==
    [k \in {getCacheKey(text, InputLanguage, OutputLanguage) : text \in WarmTexts(t)} |->
        cacheEntry(Translation(CHOOSE text \in Texts :
                       getCacheKey(text, InputLanguage, OutputLanguage) = k, 1), 0)]

\* The batch starts on an empty cache, or on a warm one whose entries are
\* still valid (age 0) or have just expired (age cacheDuration).
InitBatchCache ==
    /\ crashed = FALSE
    /\ \/ cache = EmptyCache /\ now = 0
       \/ cache = WarmCache(texts) /\ now \in {0, cacheDuration}
    /\ hset = Unexpired([k \in DOMAIN cache |->
                  SetRecord(cache[k].result, cache[k].timestamp, FALSE)], now)

Init == InitBatch /\ InitBatchCache /\ InitLock /\ InitCall

Next ==
    \/ TranslateBatchStart
    \/ SpawnWorker
    \/ WaitChunk
    \/ CheckErrors
    \/ InterChunkDelay
    \/ \E x \in Workers : Acquire(x)
    \/ \E x \in Workers : CheckCache(x)
    \/ \E x \in Workers : TranslateEnter(x)
    \/ \E x \in Workers, v \in Variants : CallOK(x, v)
    \/ \E x \in Workers : CallFail(x)
    \/ \E x \in Workers : TranslateSet(x)
    \/ \E x \in Workers : Sleep(x)
    \/ \E x \in Workers : ReportError(x)
    \/ Cancel
    \/ BatchFatal

\* One TranslateBatch call and its workers.
Spec == Init /\ [][Next]_vars

\* ------------------------------------- Translate and TranslateWithTool
\* Arguments a caller may pass; "" is what the validation rejects.
CallTexts == {"", "a"}
CallInputLanguages == {"", "English"}
CallOutputLanguages == {"", "Chinese"}
Args(text, inputLanguage, outputLanguage) ==
    [text |-> text, inputLanguage |-> inputLanguage, outputLanguage |-> outputLanguage]
ArgsKey(a) == getCacheKey(a.text, a.inputLanguage, a.outputLanguage)

\* Mutation of ValidationError: the input language is checked before the text.
ValidationErrorLanguageFirst(a) ==
    IF a.inputLanguage = "" THEN "empty input language"
    ELSE IF a.text = "" THEN "empty text input"
    ELSE IF a.outputLanguage = "" THEN "empty output language"
    ELSE ""

\* The three checks at the head of Translate and of TranslateWithTool; "" when
\* the arguments pass.
ValidationError(a) ==
    IF a.text = "" THEN "empty text input"
    ELSE IF a.inputLanguage = "" THEN "empty input language"
    ELSE IF a.outputLanguage = "" THEN "empty output language"
    ELSE ""

\* TranslateWithTool: inputText := fmt.Sprintf("Translate '%s' from %s to %s.
\* Output the translation only.", text, inputLanguage, outputLanguage)
ToolInput(a) ==
    "Translate '" \o a.text \o "' from " \o a.inputLanguage \o " to "
        \o a.outputLanguage \o ". Output the translation only."

\* Translator.Call on an input that is not JSON: the whole input, which neither
\* starts nor ends with a quote or a space, is the text, from English to Chinese.
ToolArgs(input) == Args(input, "English", "Chinese")

\* An input string of Translator.Call is a sequence of pieces; every quote and
\* every space at an end of the string is a piece of its own, so that trimming
\* works on pieces.  `json` is what json.Unmarshal makes of the string.
NoJSON == [ok |-> FALSE, text |-> "", source_language |-> "", target_language |-> ""]
JSONParams(text, source, target) ==
    [ok |-> TRUE, text |-> text, source_language |-> source, target_language |-> target]
Input(tokens, json) == [tokens |-> tokens, json |-> json]
QuoteTokens == {"'", "\""}
SpaceTokens == {" ", "\t", "\n"}

RECURSIVE TrimLeft(_, _)
TrimLeft(tokens, cutset) ==
    IF tokens # <<>> /\ Head(tokens) \in cutset
    THEN TrimLeft(Tail(tokens), cutset)
    ELSE tokens
RECURSIVE TrimRight(_, _)
TrimRight(tokens, cutset) ==
    IF tokens # <<>> /\ tokens[Len(tokens)] \in cutset
    THEN TrimRight(SubSeq(tokens, 1, Len(tokens) - 1), cutset)
    ELSE tokens
\* strings.Trim(s, cutset), strings.TrimSpace(s)
Trim(tokens, cutset) == TrimRight(TrimLeft(tokens, cutset), cutset)
RECURSIVE Join(_)
Join(tokens) == IF tokens = <<>> THEN "" ELSE Head(tokens) \o Join(Tail(tokens))

\* strings.HasPrefix(strings.TrimSpace(input), "{")
HasBracePrefix(tokens) ==
    Trim(tokens, SpaceTokens) # <<>> /\ Head(Trim(tokens, SpaceTokens)) = "{"

\* Translator.Call: the text and the languages it passes to Translate.  The
\* JSON fields are used when the input starts with "{" and parses; when the text
\* is still empty, the input stripped of the quotes and spaces at its ends is the
\* text, from English to Chinese; empty languages get their defaults.
CallArgs(input) ==
    LET parsed == HasBracePrefix(input.tokens) /\ input.json.ok
        text == IF parsed THEN input.json.text ELSE ""
        sourceLang == IF parsed THEN input.json.source_language ELSE ""
        targetLang == IF parsed THEN input.json.target_language ELSE ""
    IN  IF text = ""
        THEN Args(Join(Trim(Trim(input.tokens, QuoteTokens), SpaceTokens)),
                  "English", "Chinese")
        ELSE Args(text,
                  IF sourceLang = "" THEN "English" ELSE sourceLang,
                  IF targetLang = "" THEN "Chinese" ELSE targetLang)

\* Inputs given to Translator.Call directly: the three requests of
\* TestTranslator_Call (with the text "a"), a quoted text, a pair of quotes, and
\* a JSON object with a text only.
EmptyQuoted == Input(<<"Translate ", "'", "'", " from English to Chinese">>, NoJSON)
Quoted == Input(<<"Translate ", "'", "a", "'", " from English to Chinese">>, NoJSON)
UnknownLanguage ==
    Input(<<"Translate ", "'", "a", "'", " from InvalidLang to Chinese">>, NoJSON)
CallInputs ==
    {Quoted, EmptyQuoted, UnknownLanguage,
     Input(<<"'", "a", "'">>, NoJSON),
     Input(<<"'", "'">>, NoJSON),
     Input(<<"{", "\"text\":\"a\"", "}">>, JSONParams("a", "", ""))}

\* fmt.Errorf("translation failed: %w", err)
Wrapped(err) == "translation failed: " \o err

\* Errors of the external call (chains.Call): upstream failure, deadline.
ChainErrors == {"upstream error", "context deadline exceeded"}

\* Mutation of ErrorLeaves: a failed call stores its empty result.
ErrorCached(c, key, t) == Store(c, key, "", t)

\* The map after a return with an error: no Set stands before those returns.
ErrorLeaves(c, key, t) == c

\* The caller enters Translate(ctx, llm, text, inputLanguage, outputLanguage).
TranslateCall(text, inputLanguage, outputLanguage) ==
    /\ tpc = "idle"
    /\ tpc' = "validate"
    /\ tkind' = "Translate"
    /\ targs' = Args(text, inputLanguage, outputLanguage)
    /\ tcur' = Args(text, inputLanguage, outputLanguage)
    /\ tout' = ""
    /\ tret' = NoResult
    /\ hlook' = 0
    /\ hext' = 0
    /\ hentry' = cache
    /\ UNCHANGED <<cacheVars, lockVars, batchVars, histVars, hok, agentVars>>

\* The caller enters TranslateWithTool(ctx, llm, text, inputLanguage, outputLanguage).
TranslateWithToolCall(text, inputLanguage, outputLanguage) ==
    /\ tpc = "idle"
    /\ tpc' = "validate"
    /\ tkind' = "TranslateWithTool"
    /\ targs' = Args(text, inputLanguage, outputLanguage)
    /\ tcur' = NoArgs
    /\ tout' = ""
    /\ tret' = NoResult
    /\ hlook' = 0
    /\ hext' = 0
    /\ hentry' = cache
    /\ UNCHANGED <<cacheVars, lockVars, batchVars, histVars, hok, agentVars>>

\* The validation of the three arguments, first failure returned.
Validate ==
    /\ tpc = "validate"
    /\ IF ValidationError(targs) # ""
       THEN /\ tret' = [result |-> "", err |-> ValidationError(targs)]
            /\ cache' = ErrorLeaves(cache, ArgsKey(targs), now)
            /\ tpc' = "returned"
       ELSE /\ tpc' = "cache"
            /\ UNCHANGED <<tret, cache>>
    /\ UNCHANGED <<now, crashed, lockVars, batchVars, histVars,
                   tkind, targs, tcur, tout, hlook, hext, hentry, hok, agentVars>>

\* if result, ok := defaultCache.Get(text, inputLanguage, outputLanguage); ok
\*     { return result, nil }
\* On a miss Translate goes on to the external call, TranslateWithTool to the tool.
CacheCheck ==
    /\ tpc = "cache"
    /\ hlook' = hlook + 1
    /\ cache' = GetCache(cache, ArgsKey(targs), now)
    /\ IF GetResult(cache, ArgsKey(targs), now).ok
       THEN /\ tret' = [result |-> GetResult(cache, ArgsKey(targs), now).result,
                        err |-> ""]
            /\ tpc' = "returned"
            /\ hok' = RecordOK(hok, ArgsKey(targs),
                               GetResult(cache, ArgsKey(targs), now).result, tkind)
            /\ UNCHANGED hext
       ELSE /\ tpc' = IF tkind = "Translate" THEN "chain" ELSE "tool"
            /\ hext' = IF tkind = "Translate" THEN hext + 1 ELSE hext
            /\ UNCHANGED <<tret, hok>>
    /\ UNCHANGED <<now, crashed, lockVars, batchVars, histVars,
                   tkind, targs, tcur, tout, hentry, agentVars>>

\* The error Translate returns is passed on by Translator.Call, wrapped once
\* more, and by TranslateWithTool as it is.
Failure(err) ==
    [result |-> "", err |-> IF tkind = "Translate" THEN err ELSE Wrapped(err)]

\* TranslateWithTool: translator.Call(timeoutCtx, inputText).  Call takes the
\* sentence as the text and runs Translate(ctx, t.LLM, text, "English",
\* "Chinese") on it.  A direct call of Translator.Call arrives here with the
\* arguments taken from its input.  Translate validates, then checks the cache;
\* on a hit Call returns the cached text.
ToolCall ==
    /\ tpc = "tool"
    /\ tcur' = IF tkind = "Call" THEN tcur
               ELSE CallArgs(Input(<<ToolInput(targs)>>, NoJSON))
    /\ IF ValidationError(tcur') # ""
       THEN /\ tret' = Failure(ValidationError(tcur'))
            /\ cache' = ErrorLeaves(cache, ArgsKey(tcur'), now)
            /\ tpc' = "returned"
            /\ UNCHANGED <<hlook, hext, tout>>
       ELSE /\ hlook' = hlook + 1
            /\ cache' = GetCache(cache, ArgsKey(tcur'), now)
            /\ IF GetResult(cache, ArgsKey(tcur'), now).ok
               THEN /\ tout' = GetResult(cache, ArgsKey(tcur'), now).result
                    /\ tpc' = IF tkind = "Call" THEN "returned" ELSE "toolset"
                    /\ tret' = IF tkind = "Call"
                               THEN [result |-> tout', err |-> ""]
                               ELSE tret
                    /\ UNCHANGED hext
               ELSE /\ tpc' = "chain"
                    /\ hext' = hext + 1
                    /\ UNCHANGED <<tout, tret>>
    /\ UNCHANGED <<now, crashed, lockVars, batchVars, histVars,
                   tkind, targs, hentry, hok, agentVars>>

\* chains.Call answers with a text.
ChainOK(v) ==
    /\ tpc = "chain"
    /\ tout' = Translation(tcur.text, v)
    /\ tpc' = "store"
    /\ UNCHANGED <<cacheVars, lockVars, batchVars, histVars,
                   tkind, targs, tcur, tret, hlook, hext, hentry, hok, agentVars>>

\* chains.Call fails: return "", fmt.Errorf("translation failed: %w", err)
ChainFail(e) ==
    /\ tpc = "chain"
    /\ tret' = Failure(Wrapped(e))
    /\ cache' = ErrorLeaves(cache, ArgsKey(targs), now)
    /\ tpc' = "returned"
    /\ UNCHANGED <<now, crashed, lockVars, batchVars, histVars,
                   tkind, targs, tcur, tout, hlook, hext, hentry, hok, agentVars>>

\* chains.Call answers with something that is not a string:
\* return "", fmt.Errorf("invalid chain return")
ChainMalformed ==
    /\ tpc = "chain"
    /\ tret' = Failure("invalid chain return")
    /\ cache' = ErrorLeaves(cache, ArgsKey(targs), now)
    /\ tpc' = "returned"
    /\ UNCHANGED <<now, crashed, lockVars, batchVars, histVars,
                   tkind, targs, tcur, tout, hlook, hext, hentry, hok, agentVars>>

\* Translate: defaultCache.Set(text, inputLanguage, outputLanguage, out); return out, nil
TranslateStore ==
    /\ tpc = "store"
    /\ cache' = Store(cache, ArgsKey(tcur), tout, now)
    /\ hset' = RecordSet(hset, ArgsKey(tcur), tout, now)
    /\ IF tkind \in {"Translate", "Call"}
       THEN /\ tret' = [result |-> tout, err |-> ""]
            /\ tpc' = "returned"
            /\ hok' = IF tkind = "Translate"
                      THEN RecordOK(hok, ArgsKey(tcur), tout, tkind)
                      ELSE hok
       ELSE /\ tpc' = "toolset"
            /\ UNCHANGED <<tret, hok>>
    /\ UNCHANGED <<now, crashed, lockVars, batchVars, hcalls, hfrom, hslept, hheld, hfailed,
                   tkind, targs, tcur, tout, hlook, hext, hentry, hsent, agentVars>>

\* TranslateWithTool: defaultCache.Set(text, inputLanguage, outputLanguage, result);
\* return result, nil
ToolStore ==
    /\ tpc = "toolset"
    /\ cache' = Store(cache, ArgsKey(targs), tout, now)
    /\ hset' = RecordSet(hset, ArgsKey(targs), tout, now)
    /\ tret' = [result |-> tout, err |-> ""]
    /\ tpc' = "returned"
    /\ hok' = RecordOK(hok, ArgsKey(targs), tout, tkind)
    /\ UNCHANGED <<now, crashed, lockVars, batchVars, hcalls, hfrom, hslept, hheld, hfailed,
                   tkind, targs, tcur, tout, hlook, hext, hentry, hsent, agentVars>>

\* The caller enters translator.Call(ctx, input) on a tool made by NewTranslator.
CallDirect(input) ==
    /\ tpc = "idle"
    /\ tpc' = "tool"
    /\ tkind' = "Call"
    /\ targs' = NoArgs
    /\ tcur' = CallArgs(input)
    /\ tout' = ""
    /\ tret' = NoResult
    /\ hlook' = 0
    /\ hext' = 0
    /\ hentry' = cache
    /\ UNCHANGED <<cacheVars, lockVars, batchVars, histVars, hok, agentVars>>

\* func (t *Translator) Name() string
Name == "translate_text"

\* func (t *Translator) Description() string; the closing line of the text, an
\* example in Chinese, is left out.
Description ==
    "A translation tool that converts text between languages.\nParameters:\n"
        \o "- text: The text to translate (required)\n"
        \o "- source_language: The source language (default: English)\n"
        \o "- target_language: The target language (default: Chinese)\n"

\* The caller asks the tool made by NewTranslator for its name.
ToolName ==
    /\ tpc = "idle"
    /\ tkind' = "Name"
    /\ tret' = [result |-> Name, err |-> ""]
    /\ tpc' = "returned"
    /\ targs' = NoArgs
    /\ tcur' = NoArgs
    /\ tout' = ""
    /\ hlook' = 0
    /\ hext' = 0
    /\ hentry' = cache
    /\ UNCHANGED <<cacheVars, lockVars, batchVars, histVars, hok, agentVars>>

\* The caller asks the tool made by NewTranslator for its description.
ToolDescription ==
    /\ tpc = "idle"
    /\ tkind' = "Description"
    /\ tret' = [result |-> Description, err |-> ""]
    /\ tpc' = "returned"
    /\ targs' = NoArgs
    /\ tcur' = NoArgs
    /\ tout' = ""
    /\ hlook' = 0
    /\ hext' = 0
    /\ hentry' = cache
    /\ UNCHANGED <<cacheVars, lockVars, batchVars, histVars, hok, agentVars>>

\* The caller takes the result and is free to call again.
CallDone ==
    /\ tpc = "returned"
    /\ tpc' = "idle"
    /\ UNCHANGED <<cacheVars, lockVars, batchVars, histVars,
                   tkind, targs, tcur, tout, tret, hlook, hext, hentry, hok, agentVars>>

NextTranslate ==
    \/ \E text \in CallTexts, i \in CallInputLanguages, o \in CallOutputLanguages :
          TranslateCall(text, i, o)
    \/ \E text \in CallTexts, i \in CallInputLanguages, o \in CallOutputLanguages :
          TranslateWithToolCall(text, i, o)
    \/ Validate
    \/ CacheCheck
    \/ ToolCall
    \/ \E v \in Variants : ChainOK(v)
    \/ \E e \in ChainErrors : ChainFail(e)
    \/ ChainMalformed
    \/ TranslateStore
    \/ ToolStore
    \/ ToolName
    \/ ToolDescription
    \/ CallDone
    \/ Tick

\* One caller making calls of Translate and TranslateWithTool, and of the
\* tool's Name and Description, in sequence, while time passes.
SpecTranslate == InitCacheSpec /\ [][NextTranslate]_vars

\* A caller making calls of Translator.Call in sequence, while time passes.
NextTool ==
    \/ \E input \in CallInputs : CallDirect(input)
    \/ ToolCall
    \/ \E v \in Variants : ChainOK(v)
    \/ \E e \in ChainErrors : ChainFail(e)
    \/ ChainMalformed
    \/ TranslateStore
    \/ CallDone
    \/ Tick

SpecTool == InitCacheSpec /\ [][NextTool]_vars

\* ------------------------------------------------- TranslateWithAgent
\* maxRetries := 2
maxRetries == 2
\* agents.NewExecutor(agent, agents.WithMaxIterations(2))
maxIterations == 2

\* The four checks at the head of TranslateWithAgent; "" when the arguments pass.
AgentValidationError(a, client) ==
    IF a.text = "" THEN "empty text"
    ELSE IF a.inputLanguage = "" THEN "empty input language"
    ELSE IF a.outputLanguage = "" THEN "empty output language"
    ELSE IF client = NilClient THEN "LLM client is nil"
    ELSE ""

\* Errors of chains.Call(ctx, executor, input): those whose text contains "422",
\* those whose text contains "context deadline exceeded" or "timeout", others.
Errors422 == {"API returned unexpected status code: 422"}
TimeoutErrors == {"context deadline exceeded", "request timeout"}
OtherErrors == {"upstream error"}
AgentErrors == Errors422 \cup TimeoutErrors \cup OtherErrors

\* What chains.Call returns without an error: a nil map, a map whose "output"
\* is not a string, or a map whose "output" is a string, given by its pieces.
NilResult == [isNil |-> TRUE, isString |-> FALSE, tokens |-> <<>>]
NotString == [isNil |-> FALSE, isString |-> FALSE, tokens |-> <<>>]
Output(tokens) == [isNil |-> FALSE, isString |-> TRUE, tokens |-> tokens]
AgentResults(text) ==
    {NilResult, NotString, Output(<<>>), Output(<<" ", "\n">>),
     Output(<<Translation(text, 1)>>), Output(<<" ", Translation(text, 2), "\n">>)}

\* The return of TranslateWithAgent after chains.Call gave `result` and no error.
AgentReturn(result) ==
    IF result.isNil THEN [result |-> "", err |-> "agent returned nil result"]
    ELSE IF ~result.isString
    THEN [result |-> "", err |-> "failed to extract output from result"]
    ELSE IF Join(Trim(result.tokens, SpaceTokens)) = ""
    THEN [result |-> "", err |-> "agent returned empty output"]
    ELSE [result |-> Join(Trim(result.tokens, SpaceTokens)), err |-> ""]

\* Mutation of RetriesLeft: one more round is allowed.
RetriesLeftInclusive(r) == r <= maxRetries

\* for retry := 0; retry < maxRetries; retry++
RetriesLeft(r) == r < maxRetries

\* The caller enters TranslateWithAgent(ctx, llm, text, inputLanguage, outputLanguage).
TranslateWithAgentCall(client, text, inputLanguage, outputLanguage) ==
    /\ tpc = "idle"
    /\ tpc' = "agentValidate"
    /\ tkind' = "TranslateWithAgent"
    /\ targs' = Args(text, inputLanguage, outputLanguage)
    /\ tcur' = NoArgs
    /\ tout' = ""
    /\ tret' = NoResult
    /\ hlook' = 0
    /\ hext' = 0
    /\ hentry' = cache
    /\ llm' = client
    /\ retry' = 0
    /\ iterations' = 0
    /\ hattempts' = <<>>
    /\ hdirect' = 0
    /\ UNCHANGED <<cacheVars, lockVars, batchVars, histVars, hok>>

\* TranslateWithAgent: the validation of the arguments and of the client, first
\* failure returned; then the tool, the agent and the executor are built.
AgentValidate ==
    /\ tpc = "agentValidate"
    /\ IF AgentValidationError(targs, llm) # ""
       THEN /\ tret' = [result |-> "", err |-> AgentValidationError(targs, llm)]
            /\ tpc' = "returned"
       ELSE /\ tpc' = "loop"
            /\ UNCHANGED tret
    /\ UNCHANGED <<cacheVars, lockVars, batchVars, histVars,
                   tkind, targs, tcur, tout, hlook, hext, hentry, hok, agentVars>>

\* TranslateWithAgent, head of the retry loop: with a round left, the delay
\* before a retry and chains.Call(ctx, executor, input); with none left,
\* return translator.Translate(ctx, llm, text, inputLanguage, outputLanguage).
AgentLoop ==
    /\ tpc = "loop"
    /\ IF RetriesLeft(retry)
       THEN /\ tpc' = "executor"
            /\ iterations' = 0
            /\ hattempts' = Append(hattempts, "running")
            /\ hext' = hext + 1
            /\ UNCHANGED <<tkind, tcur, hdirect>>
       ELSE /\ tpc' = "validate"
            /\ tkind' = "Translate"
            /\ tcur' = targs
            /\ hdirect' = hdirect + 1
            /\ UNCHANGED <<iterations, hattempts, hext>>
    /\ UNCHANGED <<cacheVars, lockVars, batchVars, histVars,
                   targs, tout, tret, hlook, hentry, hok, llm, retry>>

\* The executor, inside chains.Call, runs the tool on the parameters of the
\* request: Translator.Call, whose Translate finds the text in the cache, or
\* makes the external call and stores the answer (v), or fails (v = 0).
AgentTool(v) ==
    /\ tpc = "executor"
    /\ iterations < maxIterations
    /\ iterations' = iterations + 1
    /\ hlook' = hlook + 1
    /\ LET a == CallArgs(Input(<<"{", "\"text\":..", "}">>,
                               JSONParams(targs.text, targs.inputLanguage,
                                          targs.outputLanguage)))
       IN  IF GetResult(cache, ArgsKey(a), now).ok
           THEN /\ cache' = GetCache(cache, ArgsKey(a), now)
                /\ UNCHANGED <<hext, hset>>
           ELSE /\ hext' = hext + 1
                /\ IF v = 0
                   THEN /\ cache' = ErrorLeaves(GetCache(cache, ArgsKey(a), now),
                                                ArgsKey(a), now)
                        /\ UNCHANGED hset
                   ELSE /\ cache' = Store(cache, ArgsKey(a), Translation(a.text, v), now)
                        /\ hset' = RecordSet(hset, ArgsKey(a), Translation(a.text, v), now)
    /\ UNCHANGED <<now, crashed, lockVars, batchVars, hcalls, hfrom, hslept, hheld,
                   hfailed, hsent, tpc, tkind, targs, tcur, tout, tret, hentry, hok,
                   llm, retry, hattempts, hdirect>>

\* chains.Call returns without an error: the output is extracted, trimmed and
\* returned, or an error is returned for a result without a usable output.
AgentOK(result) ==
    /\ tpc = "executor"
    /\ hattempts' = [hattempts EXCEPT ![Len(hattempts)] = "ok"]
    /\ tret' = AgentReturn(result)
    /\ tpc' = "returned"
    /\ UNCHANGED <<cacheVars, lockVars, batchVars, histVars,
                   tkind, targs, tcur, tout, hlook, hext, hentry, hok,
                   llm, retry, iterations, hdirect>>

\* chains.Call returns an error.  On a 422 error: return
\* translator.Translate(ctx, llm, text, inputLanguage, outputLanguage).  On a
\* timeout error `continue`, on any other error the end of the loop body: both
\* lead to retry++.
AgentFail(e) ==
    /\ tpc = "executor"
    /\ hattempts' = [hattempts EXCEPT ![Len(hattempts)] = e]
    /\ IF e \in Errors422
       THEN /\ tpc' = "validate"
            /\ tkind' = "Translate"
            /\ tcur' = targs
            /\ hdirect' = hdirect + 1
            /\ UNCHANGED retry
       ELSE /\ tpc' = "loop"
            /\ retry' = retry + 1
            /\ UNCHANGED <<tkind, tcur, hdirect>>
    /\ UNCHANGED <<cacheVars, lockVars, batchVars, histVars,
                   targs, tout, tret, hlook, hext, hentry, hok, llm, iterations>>

NextAgent ==
    \/ \E client \in {NilClient, Client}, text \in CallTexts,
          i \in CallInputLanguages, o \in CallOutputLanguages :
          TranslateWithAgentCall(client, text, i, o)
    \/ AgentValidate
    \/ AgentLoop
    \/ \E v \in Variants \cup {0} : AgentTool(v)
    \/ \E result \in AgentResults(targs.text) : AgentOK(result)
    \/ \E e \in AgentErrors : AgentFail(e)
    \/ Validate
    \/ CacheCheck
    \/ \E v \in Variants : ChainOK(v)
    \/ \E e \in ChainErrors : ChainFail(e)
    \/ ChainMalformed
    \/ TranslateStore
    \/ CallDone
    \/ Tick

\* A caller making calls of TranslateWithAgent in sequence, while time passes.
SpecAgent == InitCacheSpec /\ [][NextAgent]_vars

\* ------------------------------------------------- keys of two triples
\* Fields of the triples given to Set and Get.  Some contain the separator
\* of the key, and some are prefixes or suffixes of others.
KeyTexts == {"a", "ab", "a:b"}
KeyInputLanguages == {"c", "bc", "b:c"}
KeyOutputLanguages == {"d", "c:d"}
KeyTriples ==
    {Args(text, i, o) : text \in KeyTexts, i \in KeyInputLanguages,
                        o \in KeyOutputLanguages}
\* The fields above that contain ':'.
HasSeparator(field) == field \in {"a:b", "b:c", "c:d"}
SeparatorFree(a) ==
    /\ ~HasSeparator(a.text)
    /\ ~HasSeparator(a.inputLanguage)
    /\ ~HasSeparator(a.outputLanguage)
\* A result that tells which triple it was stored for.
ResultFor(a) ==
    "zh(" \o a.text \o "|" \o a.inputLanguage \o "|" \o a.outputLanguage \o ")"

\* defaultCache.Set(text, inputLanguage, outputLanguage, result) for the
\* first triple.
KeySet ==
    /\ tpc = "idle"
    /\ cache' = Store(cache, ArgsKey(targs), ResultFor(targs), now)
    /\ hset' = RecordSet(hset, ArgsKey(targs), ResultFor(targs), now)
    /\ tpc' = "keyset"
    /\ UNCHANGED <<now, crashed, lockVars, batchVars, hcalls, hfrom, hslept, hheld, hfailed,
                   hsent, tkind, targs, tcur, tout, tret, hlook, hext, hentry, hok, agentVars>>

\* defaultCache.Get(text, inputLanguage, outputLanguage) for the second triple.
KeyGet ==
    /\ tpc = "keyset"
    /\ cache' = GetCache(cache, ArgsKey(tcur), now)
    /\ tout' = GetResult(cache, ArgsKey(tcur), now).result
    /\ tpc' = IF GetResult(cache, ArgsKey(tcur), now).ok THEN "keyhit" ELSE "keymiss"
    /\ UNCHANGED <<now, crashed, lockVars, batchVars, histVars,
                   tkind, targs, tcur, tret, hlook, hext, hentry, hok, agentVars>>

\* Two triples are chosen; the cache is empty.
InitKey ==
    /\ InitCache /\ InitLock /\ InitNoBatch
    /\ tpc = "idle"
    /\ tkind = ""
    /\ targs \in KeyTriples
    /\ tcur \in KeyTriples
    /\ tout = ""
    /\ tret = NoResult
    /\ hlook = 0
    /\ hext = 0
    /\ hentry = cache
    /\ hok = NoSuccess
    /\ InitAgent

NextKey ==
    \/ KeySet
    \/ KeyGet
    \/ Tick

\* A Set for one triple, then a Get for another one, while time passes.
SpecKey == InitKey /\ [][NextKey]_vars

\* ------------------------------------------------------------------ claims
\* Steps of the worker of Go index x.
WorkerStep(x) ==
    \/ Acquire(x)
    \/ CheckCache(x)
    \/ TranslateEnter(x)
    \/ \E v \in Variants : CallOK(x, v)
    \/ CallFail(x)
    \/ TranslateSet(x)
    \/ Sleep(x)
    \/ ReportError(x)

\* Steps of the driver, the goroutine running TranslateBatch.
DriverStep ==
    \/ TranslateBatchStart
    \/ SpawnWorker
    \/ WaitChunk
    \/ CheckErrors
    \/ InterChunkDelay

\* The Go scheduler lets every goroutine that can take a step take one, and
\* every external call returns (WorkerStep holds the two ways a call ends).  No
\* fairness is asked of the cancellation of the context or of the runtime's
\* detection of a map race.
Fairness ==
    /\ WF_vars(DriverStep)
    /\ \A x \in 0..(MaxTexts - 1) : WF_vars(x \in Workers /\ WorkerStep(x))

\* One TranslateBatch call under a fair scheduler.
SpecFair == Spec /\ Fairness

\* Workers whose external call is in flight.
InFlight == {x \in Workers : pc[x] = "call"}

\* C1: every mutation of the cache map (Set's store, Get's delete of an expired
\* entry) happens with the lock held exclusively, so no two goroutines are inside
\* the map at once when one of them writes it.
C1_ExclusiveMutation ==
    /\ \A g \in Goroutines : Mutating(g) => writer = {g} /\ readers = {}
    /\ ~MapRace

\* C2: the number of external calls in flight never exceeds maxConcurrency.
C2_ConcurrencyBound == Cardinality(InFlight) <= maxConcurrency

\* C2 witness: more items than slots, all slots busy with external calls, and a
\* further cache-miss item waiting for a slot.
C2_Witness ==
    /\ N > maxConcurrency
    /\ Cardinality(InFlight) = maxConcurrency
    /\ \E x \in Workers : pc[x] = "acquire" /\ KeyOf(x) \notin DOMAIN cache

\* C3 as claimed: a worker whose own cache check hits never acquired a slot.
C3_HitBypassesLimiter == \A x \in Workers : hfrom[x] = "cache" => x \notin hheld

\* C3 amended: a worker takes a slot before it checks the cache.  It holds a slot
\* while it checks, a hit releases that slot when the worker returns, and a worker
\* waiting for a slot does not move while all slots are taken, cached item or not.
C3_SlotBeforeCacheCheck ==
    /\ [](\A x \in Workers :
            /\ pc[x] = "check" => x \in hheld /\ sem >= 1
            /\ hfrom[x] = "cache" => x \in hheld)
    /\ [][\A x \in Workers :
            /\ (pc[x] = "check" /\ pc'[x] = "done") => sem' = sem - 1
            /\ (pc[x] = "acquire" /\ sem = maxConcurrency) => pc'[x] = "acquire"]_vars

\* C3 witness: a worker whose item is in the cache waits while all slots are taken.
C3_Witness ==
    \E x \in Workers :
        /\ pc[x] = "acquire"
        /\ sem = maxConcurrency
        /\ GetResult(cache, KeyOf(x), now).ok

\* C4: no worker of a later chunk is started before every worker of the earlier
\* chunks has returned.
C4_ChunksInSequence ==
    \A x, y \in Workers :
        (ChunkOf(x) < ChunkOf(y) /\ pc[y] # "idle") => pc[x] = "done"

\* C4 witness: a worker of the second chunk runs after a first chunk that held a
\* cache hit and a successful external call.
C4_Witness ==
    \E x, y, z \in Workers :
        /\ ChunkOf(x) = 0 /\ ChunkOf(y) = 0 /\ ChunkOf(z) = 1
        /\ hfrom[x] = "cache" /\ hfrom[y] = "call"
        /\ pc[z] \notin {"idle", "done"}

\* C5: a failed item makes the batch return (nil, error); a non-nil list is
\* returned only when every item succeeded, and has the length of the input.
C5_AllOrNothing ==
    dpc = "returned" =>
        /\ hfailed # {} => ret.isNil /\ ret.err # ""
        /\ ~ret.isNil =>
              /\ hfailed = {}
              /\ ret.err = ""
              /\ Len(ret.results) = N
              /\ \A x \in Workers : pc[x] = "done" /\ hfrom[x] # "none"

\* C5 witness: four items, the first chunk succeeded, the fourth item failed.
C5_Witness ==
    /\ dpc = "returned"
    /\ N = batchSize + 1
    /\ hfailed = {batchSize}
    /\ \A x \in 0..(batchSize - 1) : hfrom[x] # "none"
    /\ ret.isNil

\* C6: after a failure in a chunk no worker of a later chunk is started and no
\* external call is made for a later chunk; the failing chunk is drained before
\* the batch returns.
C6_NoLaterChunkAfterFailure ==
    /\ \A x \in hfailed : \A y \in Workers :
          ChunkOf(y) > ChunkOf(x) => pc[y] = "idle" /\ hcalls[y] = 0
    /\ dpc = "returned" =>
          /\ \A y \in Workers : pc[y] \in {"idle", "done"}
          /\ \A x \in hfailed : \A y \in Workers :
                ChunkOf(y) = ChunkOf(x) => pc[y] = "done"

\* C6 witness: the first item of a four-item batch failed, the other items of
\* its chunk completed, the fourth item never started.
C6_Witness ==
    /\ dpc = "returned"
    /\ N = batchSize + 1
    /\ 0 \in hfailed
    /\ hfrom[1] = "call"
    /\ pc[batchSize] = "idle"

\* C7: on success results[i] is a translation of texts[i], and a worker writes
\* no slot of results but its own.
C7_ResultOrdering ==
    /\ [](dpc = "returned" /\ ~ret.isNil =>
            \A x \in Workers : ret.results[x + 1] \in Translations(TextOf(x)))
    /\ [][\A k \in 1..N :
            (Len(results) = N /\ Len(results') = N /\ results'[k] # results[k])
                => pc'[k - 1] # pc[k - 1]]_vars

\* C7 witness: a successful batch over two chunks with different texts, one
\* result taken from the cache and one from an external call.
C7_Witness ==
    /\ dpc = "returned"
    /\ ~ret.isNil
    /\ N = batchSize + 1
    /\ texts[1] # texts[2]
    /\ \E x, y \in Workers : hfrom[x] = "cache" /\ hfrom[y] = "call"

\* C8: a worker blocked on the slot limiter when the context is done can leave
\* the wait by itself, without another worker releasing a slot.
C8_CancelAbandonsSlotWait ==
    \A x \in Workers :
        (cancelled /\ pc[x] = "acquire" /\ sem = maxConcurrency)
            => ENABLED WorkerStep(x)

\* C9: only a worker that made an external call performs the post-call delay.
C9_DelayOnlyAfterRealCall ==
    \A x \in Workers :
        (pc[x] = "sleep" \/ x \in hslept) => hcalls[x] > 0 /\ hfrom[x] = "call"

\* C10: a Get that reads an entry of age >= cacheDuration returns not-found and
\* leaves the key out of the map; a Get that reads a younger entry returns it and
\* deletes nothing; a Set stores an entry stamped with the current time, which is
\* valid again.
C10_GetExpiry ==
    /\ [](\A g \in Goroutines : gpc[g] = "get_return" =>
            /\ gage[g] >= cacheDuration =>
                  gret[g] = NoReturn /\ gkey[g] \notin DOMAIN cache
            /\ (gage[g] >= 0 /\ gage[g] < cacheDuration) =>
                  /\ gret[g].ok
                  /\ ~gdel[g]
                  /\ gkey[g] \in DOMAIN cache => gret[g].result = cache[gkey[g]].result)
    /\ [][\A g \in Goroutines : (gpc[g] = "set_store" /\ gpc'[g] = "set_unlock") =>
            /\ cache'[gkey[g]] = cacheEntry(gval[g], now)
            /\ now - cache'[gkey[g]].timestamp < cacheDuration]_vars

\* C10 witness: a Get has read an entry of age exactly cacheDuration and deleted it.
C10_Witness ==
    \E g \in Goroutines :
        gpc[g] = "get_return" /\ gage[g] = cacheDuration /\ gdel[g]

\* C11: while the last Set of a key is younger than cacheDuration, the map holds
\* for that key exactly the value and the time of that last Set, whatever was set
\* before, and a Get of the key returns that value with ok = true and deletes
\* nothing.
C11_SetThenGet ==
    /\ \A k \in DOMAIN hset :
          /\ k \in DOMAIN cache
          /\ cache[k] = cacheEntry(hset[k].result, hset[k].timestamp)
    /\ \A g \in Goroutines :
          (gpc[g] = "get_return" /\ gkey[g] \in DOMAIN hset) =>
              /\ gret[g] = [result |-> hset[gkey[g]].result, ok |-> TRUE]
              /\ gage[g] >= 0
              /\ gage[g] <= now - hset[gkey[g]].timestamp
              /\ ~gdel[g]

\* C11 witness: a key was set twice, the second time later and with another
\* value, and a Get half a lifetime after the second Set has returned that value.
C11_Witness ==
    \E g \in Goroutines :
        /\ gpc[g] = "get_return"
        /\ gkey[g] \in DOMAIN hset
        /\ hset[gkey[g]].again
        /\ hset[gkey[g]].timestamp > 0
        /\ hset[gkey[g]].result = Translation("a", 2)
        /\ gret[g].ok
        /\ gage[g] = TickHours

\* C12: a Get that finds no entry for its key returns ("", false), and none of
\* its steps changes the map: nothing is added, removed or re-stamped.
C12_MissLeavesCache ==
    /\ [](\A g \in Goroutines :
            (gpc[g] = "get_return" /\ gage[g] = -1) =>
                /\ gret[g] = [result |-> "", ok |-> FALSE]
                /\ ~gdel[g])
    /\ [][\A g \in Goroutines :
            /\ (gpc[g] = "get_lookup" /\ gpc'[g] # "get_lookup"
                    /\ gkey[g] \notin DOMAIN cache) =>
                  /\ gpc'[g] = "get_return"
                  /\ gage'[g] = -1
                  /\ cache' = cache
            /\ (gpc[g] = "get_return" /\ gpc'[g] = "idle" /\ gage[g] = -1) =>
                  cache' = cache]_vars

\* C12 witness: a Get has missed on one key while the map holds an expired
\* entry of another key, which is still there.
C12_Witness ==
    \E g \in Goroutines :
        /\ gpc[g] = "get_return"
        /\ gage[g] = -1
        /\ gkey[g] \notin DOMAIN cache
        /\ \E k \in DOMAIN cache : ~Fresh(cache[k], now)

\* C13: when Translate reaches its cache check for a triple for which an earlier
\* Translate succeeded, and the Set behind that result is younger than
\* cacheDuration, it returns that same result with a nil error and has made no
\* external call; a Translate that returns without an external call has looked
\* the cache up exactly once.
C13_SecondCallFromCache ==
    /\ [][(tpc = "cache" /\ tpc' # "cache" /\ tkind = "Translate"
              /\ ArgsKey(targs) \in DOMAIN hok
              /\ "Translate" \in hok[ArgsKey(targs)].kinds) =>
            /\ tpc' = "returned"
            /\ tret' = [result |-> hok[ArgsKey(targs)].result, err |-> ""]
            /\ hext' = 0]_vars
    /\ [](tpc = "returned" /\ tkind = "Translate" /\ tret.err = "" /\ hext = 0
             => hlook = 1)

\* C13 witness: half a lifetime after a Translate that called the service and
\* got its second answer, a Translate of the same triple has returned that answer
\* from the cache; no tool call ever stored anything.
C13_Witness ==
    /\ tpc = "returned"
    /\ tkind = "Translate"
    /\ tret = [result |-> Translation("a", 2), err |-> ""]
    /\ hext = 0
    /\ now = TickHours
    /\ ArgsKey(targs) \in DOMAIN hentry
    /\ hentry[ArgsKey(targs)].timestamp = 0
    /\ DOMAIN cache = {ArgsKey(targs)}

\* C14: a Translate whose text, input language or output language is empty
\* returns an empty result and the error of the first empty argument, in the
\* order text, input language, output language, three different messages; it
\* has made no cache lookup and no external call, and the map is as it was.
C14_ValidationFirst ==
    (tpc = "returned" /\ tkind = "Translate"
        /\ (targs.text = "" \/ targs.inputLanguage = "" \/ targs.outputLanguage = "")) =>
        /\ tret.result = ""
        /\ targs.text = "" => tret.err = "empty text input"
        /\ (targs.text # "" /\ targs.inputLanguage = "") =>
              tret.err = "empty input language"
        /\ (targs.text # "" /\ targs.inputLanguage # "") =>
              tret.err = "empty output language"
        /\ hlook = 0
        /\ hext = 0
        /\ cache = hentry

\* C14 witness: Translate("", "", "Chinese") has returned the empty-text error
\* while the map holds an expired entry.
C14_Witness ==
    /\ tpc = "returned"
    /\ tkind = "Translate"
    /\ targs = Args("", "", "Chinese")
    /\ tret.err = "empty text input"
    /\ \E k \in DOMAIN cache : ~Fresh(cache[k], now)

\* C15: when Translate or TranslateWithTool returns an error, every entry of the
\* map was there, with the same result and timestamp, when the call was entered.
C15_FailuresNotCached ==
    (tpc = "returned" /\ tret.err # "") =>
        \A k \in DOMAIN cache : k \in DOMAIN hentry /\ cache[k] = hentry[k]

\* C15 witness: a TranslateWithTool whose entry had expired made an external
\* call that failed; the expired entry is gone and nothing took its place.
C15_Witness ==
    /\ tpc = "returned"
    /\ tkind = "TranslateWithTool"
    /\ tret = [result |-> "", err |-> Wrapped(Wrapped("upstream error"))]
    /\ hext = 1
    /\ ArgsKey(targs) \in DOMAIN hentry
    /\ ArgsKey(targs) \notin DOMAIN cache

\* C16: a TranslateBatch over an empty list returns nil and the empty-input error
\* at its first step; no worker exists, no slot is taken, nothing is sent on the
\* error channel, no result list is allocated and the map stays as it was at the
\* call.
C16_EmptyBatch ==
    N = 0 =>
        /\ dpc \in {"start", "returned"}
        /\ dpc = "returned" =>
              ret = [results |-> <<>>, isNil |-> TRUE, err |-> "empty texts input"]
        /\ Workers = {}
        /\ sem = 0 /\ wg = 0 /\ hheld = {}
        /\ errChan = <<>> /\ ~errClosed
        /\ results = <<>>
        /\ cache = hentry
        /\ DOMAIN hcalls = {}

\* C16 witness: an empty batch has returned while the map holds an expired entry.
C16_Witness ==
    /\ N = 0
    /\ dpc = "returned"
    /\ \E k \in DOMAIN cache : ~Fresh(cache[k], now)

\* C17: when TranslateBatch aborts, its error names the index of the first
\* worker that sent on the error channel; that item failed and belongs to the
\* chunk the driver was processing; no item of an earlier chunk failed and no
\* worker of a later chunk was started.
C17_AbortNamesFirstFailure ==
    (dpc = "returned" /\ N > 0 /\ ret.isNil) =>
        /\ hsent # <<>>
        /\ ret.err = "batch translation error: failed to translate text at index "
                         \o ToString(hsent[1])
        /\ hsent[1] \in hfailed
        /\ ChunkOf(hsent[1]) = ChunkOf(ci)
        /\ \A y \in Workers :
              /\ ChunkOf(y) < ChunkOf(ci) => y \notin hfailed
              /\ ChunkOf(y) > ChunkOf(ci) => pc[y] = "idle"

\* C17 witness: two items of the first chunk failed, the one
\* with the higher index reported first, and the batch has aborted.
C17_Witness ==
    /\ dpc = "returned"
    /\ ret.isNil
    /\ Len(hsent) = 2
    /\ hsent[1] = 1
    /\ hsent[2] = 0
    /\ N > batchSize

\* C18: two different triples whose fields do not contain ':' have different
\* keys, and a Get for one of them never returns what was Set for the other.
C18_KeyInjective ==
    /\ \A a, b \in KeyTriples :
          (SeparatorFree(a) /\ SeparatorFree(b) /\ a # b) =>
              getCacheKey(a.text, a.inputLanguage, a.outputLanguage)
                  # getCacheKey(b.text, b.inputLanguage, b.outputLanguage)
    /\ (SeparatorFree(targs) /\ SeparatorFree(tcur) /\ targs # tcur) =>
          /\ tpc # "keyhit"
          /\ tout # ResultFor(targs)

\* C18 witness: after Set("a", "bc", "d") a Get("ab", "c", "d"), whose fields
\* spell the same letters, has missed while the entry is there and valid.
C18_Witness ==
    /\ tpc = "keymiss"
    /\ targs = Args("a", "bc", "d")
    /\ tcur = Args("ab", "c", "d")
    /\ ArgsKey(targs) \in DOMAIN cache
    /\ Fresh(cache[ArgsKey(targs)], now)

\* C19: a key leaves the map only in the delete step of a Get for that key which
\* read the entry at an age of cacheDuration or more; no other step (a Set, a
\* Get of another key, a Get of a valid entry, the passage of time) removes a key.
C19_LazyExpiryOnly ==
    [][\A k \in DOMAIN cache :
          k \notin DOMAIN cache' =>
              \E g \in Goroutines :
                  /\ gpc[g] = "get_delete"
                  /\ gpc'[g] = "get_return"
                  /\ gkey[g] = k
                  /\ gage[g] >= cacheDuration]_vars

\* C19 witness: a Get has deleted the expired entry of its key while the entry of
\* another key, expired for longer than a lifetime, is still in the map.
C19_Witness ==
    \E g \in Goroutines : \E k \in DOMAIN cache :
        /\ gpc[g] = "get_return"
        /\ gdel[g]
        /\ gkey[g] # k
        /\ now - cache[k].timestamp > cacheDuration

\* C20: the tool made by NewTranslator answers "translator" to Name() and a
\* non-empty text to Description().
C20_ToolNameAndDescription ==
    /\ (tpc = "returned" /\ tkind = "Name") => tret.result = "translator"
    /\ (tpc = "returned" /\ tkind = "Description") => tret.result # ""

\* C21: Translator.Call on the request with an empty quoted text returns an
\* error; on the request with a quoted text, and on the one naming an unknown
\* source language, it returns no validation error.
C21_FreeFormRequests ==
    (tpc = "returned" /\ tkind = "Call") =>
        /\ tcur = CallArgs(EmptyQuoted) => tret.err # ""
        /\ tcur \in {CallArgs(Quoted), CallArgs(UnknownLanguage)} =>
              tret.err \notin {Wrapped("empty text input"),
                               Wrapped("empty input language"),
                               Wrapped("empty output language")}

\* C22: when TranslateWithTool reaches its cache check for a triple for which an
\* earlier TranslateWithTool succeeded, and the Set behind that result is younger
\* than cacheDuration, it returns that same result, read from the entry of the
\* triple, with a nil error; it has looked the cache up once, has not called the
\* tool and has made no external call.
C22_ToolSecondCallFromCache ==
    [][(tpc = "cache" /\ tpc' # "cache" /\ tkind = "TranslateWithTool"
          /\ ArgsKey(targs) \in DOMAIN hok
          /\ "TranslateWithTool" \in hok[ArgsKey(targs)].kinds) =>
        /\ ArgsKey(targs) \in DOMAIN cache
        /\ cache[ArgsKey(targs)].result = hok[ArgsKey(targs)].result
        /\ tpc' = "returned"
        /\ tret' = [result |-> hok[ArgsKey(targs)].result, err |-> ""]
        /\ hlook' = 1
        /\ hext' = 0
        /\ tcur' = NoArgs]_vars

\* C22 witness: half a lifetime after a TranslateWithTool that got the second
\* answer of the service through the tool, a TranslateWithTool of the same
\* triple has returned that answer without going to the tool.
C22_Witness ==
    /\ tpc = "returned"
    /\ tkind = "TranslateWithTool"
    /\ targs = Args("a", "English", "Chinese")
    /\ tret = [result |-> Translation(ToolInput(targs), 2), err |-> ""]
    /\ hext = 0
    /\ tcur = NoArgs
    /\ now = TickHours
    /\ hentry[ArgsKey(targs)].timestamp = 0

\* Workers that have taken a slot and have not returned.
Holders == {x \in Workers : pc[x] \in {"check", "translate", "call", "set", "sleep", "report"}}

\* C23: the number of slots held is the number of workers between their acquire
\* and their return, so each worker gives back the one slot it took, whatever
\* its way out; the number stays between 0 and maxConcurrency, and it is 0 when
\* the driver has passed wg.Wait() of a chunk and when the batch has returned.
C23_SlotReleasedOnce ==
    /\ sem = Cardinality(Holders)
    /\ sem >= 0 /\ sem <= maxConcurrency
    /\ \A x \in Workers : pc[x] = "done" => x \in hheld
    /\ dpc \in {"select", "pause", "returned"} => sem = 0

\* C23 witness: a batch has returned after one worker left on a cache hit, one
\* after a successful call and one after a failed call.
C23_Witness ==
    /\ dpc = "returned"
    /\ sem = 0
    /\ \E x, y, z \in Workers :
          /\ hfrom[x] = "cache" /\ hfrom[y] = "call" /\ z \in hfailed
          /\ pc[x] = "done" /\ pc[y] = "done" /\ pc[z] = "done"

\* C24: a worker that has a failure to report can send it at once; each worker
\* sends at most one error, and the errors queued never exceed the input length.
C24_ErrorSendNeverBlocks ==
    /\ \A x \in Workers : (pc[x] = "report" /\ ~crashed) => ENABLED ReportError(x)
    /\ \A k, m \in 1..Len(hsent) : hsent[k] = hsent[m] => k = m
    /\ Len(errChan) <= Len(hsent)
    /\ Len(hsent) <= N

\* C24 witness: every item of a full chunk failed and all the errors are queued.
C24_Witness ==
    /\ Len(errChan) = batchSize
    /\ hfailed = 0..(batchSize - 1)
    /\ \A x \in 0..(batchSize - 1) : pc[x] = "done"

\* C25: one external call at most is started for each index of a batch; an
\* index whose call was started has left Translate's cache check for good, and a
\* failed or finished worker never comes back.
C25_OneCallPerIndex ==
    /\ \A x \in Workers :
          /\ hcalls[x] <= 1
          /\ hcalls[x] = 1 => pc[x] \in {"call", "set", "sleep", "report", "done"}
    /\ \A x \in hfailed : pc[x] \in {"report", "done"}

\* C25 witness: the batch has returned after an external call failed; that call
\* was the only one of its index.
C25_Witness ==
    /\ dpc = "returned"
    /\ \E x \in hfailed : hcalls[x] = 1 /\ pc[x] = "done"

\* C26: when TranslateBatch has returned a list, the cache entry of every item
\* holds the result returned for that item, and items with the same text have
\* the same result.
C26_CacheAgreesWithResults ==
    (dpc = "returned" /\ ~ret.isNil) =>
        /\ \A x \in Workers :
              /\ KeyOf(x) \in DOMAIN cache
              /\ cache[KeyOf(x)].result = ret.results[x + 1]
        /\ \A x, y \in Workers :
              TextOf(x) = TextOf(y) => ret.results[x + 1] = ret.results[y + 1]

\* C27: a TranslateBatch over a list of one item or more eventually returns.
C27_BatchTerminates == (N >= 1) ~> (dpc = "returned")

\* C28: once the error channel is closed the batch has returned and every worker
\* that was started has returned; a worker that has an error to send finds the
\* channel open.
C28_CloseAfterWorkers ==
    /\ errClosed =>
          /\ dpc = "returned"
          /\ wg = 0
          /\ \A x \in Workers : pc[x] \in {"idle", "done"}
    /\ \A x \in Workers : pc[x] = "report" => ~errClosed

\* C28 witness: the channel was closed after all three workers of a chunk had
\* failed and returned.
C28_Witness ==
    /\ errClosed
    /\ Len(hsent) = batchSize
    /\ \A x \in 0..(batchSize - 1) : pc[x] = "done"

\* C29: when TranslateBatch has aborted, every item whose external call
\* succeeded still has a valid cache entry, holding the answer of a successful
\* call of the batch for that text, so that a lookup of the item hits.
C29_AbortKeepsCache ==
    (dpc = "returned" /\ N > 0 /\ ret.isNil) =>
        \A x \in Workers : hfrom[x] = "call" =>
            /\ KeyOf(x) \in DOMAIN cache
            /\ Fresh(cache[KeyOf(x)], now)
            /\ GetResult(cache, KeyOf(x), now).ok
            /\ \E y \in Workers :
                  /\ TextOf(y) = TextOf(x)
                  /\ hfrom[y] = "call"
                  /\ cache[KeyOf(x)].result = results[y + 1]

\* C29 witness: on an empty cache the first chunk was translated by external
\* calls, the item of the second chunk failed, and the batch has aborted.
C29_Witness ==
    /\ dpc = "returned"
    /\ ret.isNil
    /\ N = batchSize + 1
    /\ hentry = EmptyCache
    /\ hfailed = {batchSize}
    /\ \E x \in 0..(batchSize - 1) : hfrom[x] = "call"
    /\ texts[1] # texts[2]

\* C30: TranslateWithAgent runs the executor at most maxRetries times and
\* calls Translate itself at most once; a 422 error ends the attempts at once.
\* When it has returned: with an empty text or language or a nil client it
\* returned the validation error with no attempt, no lookup and no external
\* call made; with valid arguments, if every attempt returned an error, it made
\* exactly one direct Translate call on its own arguments and returned what
\* that call returned: the cached or stored text, or the error of Translate.
C30_AgentFallback ==
    /\ Len(hattempts) <= maxRetries
    /\ hdirect <= 1
    /\ \A i \in 1..(Len(hattempts) - 1) : hattempts[i] \in AgentErrors \ Errors422
    /\ tpc = "returned" =>
          IF AgentValidationError(targs, llm) # ""
          THEN /\ tret = [result |-> "", err |-> AgentValidationError(targs, llm)]
               /\ hattempts = <<>>
               /\ hdirect = 0
               /\ hext = 0
               /\ hlook = 0
               /\ cache = hentry
          ELSE /\ Len(hattempts) >= 1
               /\ (\A i \in 1..Len(hattempts) : hattempts[i] \in AgentErrors) =>
                     /\ hdirect = 1
                     /\ tkind = "Translate"
                     /\ tcur = targs
                     /\ IF tret.err = ""
                        THEN /\ ArgsKey(targs) \in DOMAIN cache
                             /\ tret.result = cache[ArgsKey(targs)].result
                        ELSE /\ tret.result = ""
                             /\ tret.err \in {Wrapped(e) : e \in ChainErrors}
                                               \cup {"invalid chain return"}
               /\ (\E i \in 1..Len(hattempts) : hattempts[i] = "ok") => hdirect = 0

\* C30 witness: both attempts failed, the first with a timeout, and the direct
\* Translate call that followed made the external call and returned its answer.
C30_Witness ==
    /\ tpc = "returned"
    /\ Len(hattempts) = maxRetries
    /\ hattempts[1] \in TimeoutErrors
    /\ hattempts[maxRetries] \in OtherErrors
    /\ hdirect = 1
    /\ tret.err = ""
    /\ hentry = EmptyCache

=============================================================================
